---- MODULE Spec2Model ----
(***************************************************************************)
(* Model of app/models.py of nutri-scan: the SQLModel table classes        *)
(* (FoodItem, Barcode, ScanHistory), the request/response schemas          *)
(* (FoodItemCreate, FoodItemUpdate, BarcodeCreate, ScanResult), the        *)
(* validation the declarations imply, and the storage operations that      *)
(* consume them.                                                           *)
(*                                                                         *)
(* Python values are tagged records, so that a value of one type never     *)
(* equals a value of another:                                              *)
(*   None            [none |-> TRUE]                                       *)
(*   str             [str |-> "..."]                                       *)
(*   int             [int |-> n]                                           *)
(*   Decimal         [coef |-> c, exp |-> e]      (c * 10^e, as written)   *)
(*   Enum member     [enum |-> "NutriScore", name |-> "A"]                 *)
(*   List[str]       [list |-> << "...", ... >>]                           *)
(*   datetime        [datetime |-> t]                                      *)
(*   bool            [bool |-> b]                                          *)
(*   Dict[str, Any]  [dict |-> f]                                          *)
(***************************************************************************)
EXTENDS Integers, Sequences, FiniteSets, TLC

VARIABLES
    food_items,    \* rows of table food_items
    barcodes,      \* rows of table barcodes
    scan_history,  \* rows of table scan_history
    next_id,       \* per table, the next primary key the storage hands out
    now,           \* datetime.utcnow(), as a counter
    result,        \* what the last operation was given and what it returned
    pc,            \* per concurrent writer, its position in its transaction
    req,           \* per concurrent writer, the insert it is performing
    uncommitted    \* rows written by transactions that have not yet ended

vars == <<food_items, barcodes, scan_history, next_id, now, result, pc, req, uncommitted>>

---------------------------------------------------------------------------
\* Python values

None == [none |-> TRUE]

Str(s) == [str |-> s]

PyInt(n) == [int |-> n]

Dec(c, e) == [coef |-> c, exp |-> e]

Member(e, n) == [enum |-> e, name |-> n]

List(l) == [list |-> l]

Datetime(t) == [datetime |-> t]

Bool(b) == [bool |-> b]

Dict(f) == [dict |-> f]

IsStr(v) == "str" \in DOMAIN v

IsInt(v) == "int" \in DOMAIN v

IsDecimal(v) == "coef" \in DOMAIN v

IsMember(v) == "enum" \in DOMAIN v

IsList(v) == "list" \in DOMAIN v

IsDatetime(v) == "datetime" \in DOMAIN v

IsBool(v) == "bool" \in DOMAIN v

IsDict(v) == "dict" \in DOMAIN v

\* a string of n characters
RECURSIVE Chars(_)
Chars(n) ==
    IF n = 0 THEN ""
    ELSE IF n % 2 = 0 THEN Chars(n \div 2) \o Chars(n \div 2)
    ELSE Chars(n - 1) \o "x"

---------------------------------------------------------------------------
\* Enums: member name |-> member value

NutriScore == [A |-> "A", B |-> "B", C |-> "C", D |-> "D", E |-> "E"]

HealthAssessment ==
    [GOOD |-> "Good for health", MODERATE |-> "Moderate", NOT_RECOMMENDED |-> "Not recommended"]

EnumClass(e) == IF e = "NutriScore" THEN NutriScore ELSE HealthAssessment

\* the member's value: both enums derive from str, so a member is its value
ValueOf(m) == EnumClass(m.enum)[m.name]

\* Enum(value): the member with that value, as a set (empty when there is none)
MembersWithValue(e, s) == {Member(e, n) : n \in {k \in DOMAIN EnumClass(e) : EnumClass(e)[k] = s}}

\* Python's ==: a member of a str-derived enum equals its value string
PyEq(a, b) ==
    IF IsMember(a) /\ IsStr(b) THEN ValueOf(a) = b.str
    ELSE IF IsStr(a) /\ IsMember(b) THEN a.str = ValueOf(b)
    ELSE a = b

---------------------------------------------------------------------------
\* Field declarations.  optional: Optional[...]; required: no default;
\* factory: default_factory=datetime.utcnow; max_length: the declared limit
\* as a set (empty when none is declared); enum: the enum class of the field.

Required(n, t, maxlen) ==
    [name |-> n, type |-> t, optional |-> FALSE, required |-> TRUE, factory |-> FALSE,
     max_length |-> maxlen, decimal_places |-> {}, enum |-> ""]

Opt(n, t, maxlen) ==
    [name |-> n, type |-> t, optional |-> TRUE, required |-> FALSE, factory |-> FALSE,
     max_length |-> maxlen, decimal_places |-> {}, enum |-> ""]

OptEnum(n, e) ==
    [name |-> n, type |-> "enum", optional |-> TRUE, required |-> FALSE, factory |-> FALSE,
     max_length |-> {}, decimal_places |-> {}, enum |-> e]

UtcNow(n) ==
    [name |-> n, type |-> "datetime", optional |-> FALSE, required |-> FALSE, factory |-> TRUE,
     max_length |-> {}, decimal_places |-> {}, enum |-> ""]

\* a class: whether it is a table, its fields in order, and the fields by name
Model(table, fields) ==
    [table |-> table, fields |-> fields,
     names |-> {fields[i].name : i \in DOMAIN fields},
     by |-> [n \in {fields[i].name : i \in DOMAIN fields} |->
               fields[CHOOSE i \in DOMAIN fields : fields[i].name = n]]]

PrimaryKey ==
    [name |-> "id", type |-> "int", optional |-> TRUE, required |-> FALSE, factory |-> FALSE,
     max_length |-> {}, decimal_places |-> {}, enum |-> ""]

\* Optional[Decimal] = Field(default=None): dp is the declared decimal_places, as a
\* set (empty when none is declared)
OptDecimal(n, dp) ==
    [name |-> n, type |-> "decimal", optional |-> TRUE, required |-> FALSE, factory |-> FALSE,
     max_length |-> {}, decimal_places |-> dp, enum |-> ""]

\* the ten nutrient quantities, declared alike in FoodItem, FoodItemCreate, FoodItemUpdate
Nutrients(dp) ==
    << OptDecimal("energy_kj", dp), OptDecimal("energy_kcal", dp),
       OptDecimal("fat", dp), OptDecimal("saturated_fat", dp),
       OptDecimal("carbohydrates", dp), OptDecimal("sugars", dp),
       OptDecimal("fiber", dp), OptDecimal("protein", dp),
       OptDecimal("salt", dp), OptDecimal("sodium", dp) >>

Metadata ==
    << Opt("ingredients", "list", {}), Opt("allergens", "list", {}), Opt("categories", "list", {}) >>

FoodItem_name == Required("name", "str", {255})


FoodItem_one_decimal_place == {1}

\* no max_digits or decimal_places is declared on the nutrient fields of FoodItem
FoodItem_decimal_places == {}

FoodItem ==
    Model(TRUE,
          << PrimaryKey, FoodItem_name, Opt("brand", "str", {255}),
                   Opt("description", "str", {1000}) >>
                \o Nutrients(FoodItem_decimal_places)
                \o << OptEnum("nutri_score", "NutriScore"),
                      OptEnum("health_assessment", "HealthAssessment") >>
                \o Metadata
                \o << UtcNow("created_at"), UtcNow("updated_at") >>)

Barcode_code_max_length == 50


Barcode_code_not_unique == FALSE

Barcode_code_unique == TRUE


Barcode_no_foreign_key == ""

Barcode_food_item_id_foreign_key == "food_items.id"

Barcode ==
    Model(TRUE,
          << PrimaryKey, Required("code", "str", {Barcode_code_max_length}),
                   Required("barcode_type", "str", {20}),
                   Required("food_item_id", "int", {}), UtcNow("created_at") >>)

ScanHistory_barcode_scanned_max_length == 50

ScanHistory_food_item_id_foreign_key == "food_items.id"

ScanHistory ==
    Model(TRUE,
          << PrimaryKey, Required("food_item_id", "int", {}),
                   Required("barcode_scanned", "str", {ScanHistory_barcode_scanned_max_length}),
                   UtcNow("scan_timestamp"), Opt("user_agent", "str", {500}),
                   Opt("ip_address", "str", {45}) >>)

\* Relationship(back_populates=...) of FoodItem.barcodes and FoodItem.scan_history:
\* no cascade is declared, so deleting a FoodItem deletes none of its rows
FoodItem_barcodes_cascade_delete == FALSE


FoodItem_scan_history_cascades == TRUE

FoodItem_scan_history_cascade_delete == FALSE


FoodItemCreate_name_not_required == FALSE

FoodItemCreate_name_required == TRUE


FoodItemCreate_name_max_length_off_by_one == 255 + 1

FoodItemCreate_name_max_length == 255

FoodItemCreate_name ==
    [name |-> "name", type |-> "str", optional |-> FALSE,
     required |-> FoodItemCreate_name_required, factory |-> FALSE,
     max_length |-> {FoodItemCreate_name_max_length}, decimal_places |-> {}, enum |-> ""]


FoodItemCreate_nutri_score_as_str == Opt("nutri_score", "str", {})

FoodItemCreate_nutri_score == OptEnum("nutri_score", "NutriScore")

FoodItemCreate ==
    Model(FALSE,
          << FoodItemCreate_name, Opt("brand", "str", {255}),
                   Opt("description", "str", {1000}) >>
                \o Nutrients({})
                \o << FoodItemCreate_nutri_score,
                      OptEnum("health_assessment", "HealthAssessment") >>
                \o Metadata)

FoodItemUpdate_name == Opt("name", "str", {255})

FoodItemUpdate ==
    Model(FALSE,
          << FoodItemUpdate_name, Opt("brand", "str", {255}),
                   Opt("description", "str", {1000}) >>
                \o Nutrients({})
                \o << OptEnum("nutri_score", "NutriScore"),
                      OptEnum("health_assessment", "HealthAssessment") >>
                \o Metadata)


BarcodeCreate_code_max_length_off_by_one == 50 + 1

BarcodeCreate_code_max_length == 50

BarcodeCreate ==
    Model(FALSE,
          << Required("code", "str", {BarcodeCreate_code_max_length}),
                   Required("barcode_type", "str", {20}),
                   Required("food_item_id", "int", {}) >>)


ScanResult_food_item_required == Required("food_item", "dict", {})

ScanResult_food_item == Opt("food_item", "dict", {})

ScanResult ==
    Model(FALSE,
          << Required("barcode", "str", {}), Required("found", "bool", {}),
                   ScanResult_food_item, OptEnum("nutri_score", "NutriScore"),
                   OptEnum("health_assessment", "HealthAssessment"),
                   UtcNow("scan_timestamp") >>)

FieldsOf(cls) == {cls.by[n] : n \in cls.names}

FieldNames(cls) == cls.names

FieldNamed(cls, n) == cls.by[n]

---------------------------------------------------------------------------
\* Validation of one value against a field declaration: the error type, or "ok"

HasType(f, v) ==
    CASE f.type = "str" -> IsStr(v)
      [] f.type = "int" -> IsInt(v)
      [] f.type = "decimal" -> IsDecimal(v) \/ IsInt(v)
      [] f.type = "enum" -> (IsMember(v) /\ v.enum = f.enum)
                            \/ (IsStr(v) /\ MembersWithValue(f.enum, v.str) # {})
      [] f.type = "list" -> IsList(v)
      [] f.type = "datetime" -> IsDatetime(v)
      [] f.type = "bool" -> IsBool(v)
      [] f.type = "dict" -> IsDict(v)

TypeError(f) ==
    CASE f.type = "str" -> "string_type"
      [] f.type = "int" -> "int_type"
      [] f.type = "decimal" -> "decimal_type"
      [] f.type = "enum" -> "enum"
      [] f.type = "list" -> "list_type"
      [] f.type = "datetime" -> "datetime_type"
      [] f.type = "bool" -> "bool_type"
      [] f.type = "dict" -> "dict_type"

\* the number of digits after the decimal point
DecimalPlaces(d) == IF d.exp < 0 THEN 0 - d.exp ELSE 0

CheckValue(f, v) ==
    IF v = None THEN (IF f.optional THEN "ok" ELSE TypeError(f))
    ELSE IF ~HasType(f, v) THEN TypeError(f)
    ELSE IF f.type = "str" /\ \E m \in f.max_length : Len(v.str) > m THEN "string_too_long"
    ELSE IF IsDecimal(v) /\ \E dp \in f.decimal_places : DecimalPlaces(v) > dp
         THEN "decimal_max_places"
    ELSE "ok"

\* the validated value: a string becomes the enum member, an int the Decimal
Coerce(f, v) ==
    IF v = None THEN v
    ELSE IF f.type = "enum" /\ IsStr(v) THEN CHOOSE m \in MembersWithValue(f.enum, v.str) : TRUE
    ELSE IF f.type = "decimal" /\ IsInt(v) THEN Dec(v.int, 0)
    ELSE v

DefaultOf(f, t) == IF f.factory THEN Datetime(t) ELSE None

\* the errors of input `data` (a function from some field names to values)
Errors(cls, data) ==
    {[loc |-> f.name, type |-> "missing"] :
        f \in {g \in FieldsOf(cls) : g.required /\ g.name \notin DOMAIN data}}
    \cup
    {[loc |-> f.name, type |-> CheckValue(f, data[f.name])] :
        f \in {g \in FieldsOf(cls) : g.name \in DOMAIN data /\ CheckValue(g, data[g.name]) # "ok"}}

\* cls(**data) of a class that is not a table: validates, raises ValidationError
Validate(cls, data, t) ==
    LET errors == Errors(cls, data)
    IN
    IF errors # {}
    THEN [ok |-> FALSE, error |-> "ValidationError", errors |-> errors]
    ELSE [ok |-> TRUE,
          obj |-> [n \in FieldNames(cls) |->
                     IF n \in DOMAIN data THEN Coerce(FieldNamed(cls, n), data[n])
                     ELSE DefaultOf(FieldNamed(cls, n), t)],
          fields_set |-> DOMAIN data \cap FieldNames(cls)]

\* cls(**data) of a table class: the values are set as given, without validation;
\* an attribute that was not given reads as its default, or None
TableConstruct(cls, data, t) ==
    [ok |-> TRUE,
     obj |-> [n \in FieldNames(cls) |->
                IF n \in DOMAIN data THEN data[n] ELSE DefaultOf(FieldNamed(cls, n), t)],
     fields_set |-> DOMAIN data \cap FieldNames(cls)]

Construct(cls, data, t) ==
    IF cls.table THEN TableConstruct(cls, data, t) ELSE Validate(cls, data, t)

---------------------------------------------------------------------------
\* Storage: column values.  NULL is [null |-> TRUE]; a VARCHAR is [varchar |-> s],
\* a NUMERIC [numeric |-> <<c, e>>], a JSON document [json |-> l], an INTEGER
\* [integer |-> n], a TIMESTAMP [timestamp |-> t].

Null == [null |-> TRUE]

RECURSIVE Pow10(_)
Pow10(k) == IF k = 0 THEN 1 ELSE 10 * Pow10(k - 1)

\* NUMERIC with a declared scale keeps exactly that many decimal places (rounding
\* half up); with none declared it keeps the value as written
Quantize(d, dp) ==
    IF dp = {} THEN d
    ELSE LET s == CHOOSE x \in dp : TRUE
             k == DecimalPlaces(d) - s
         IN  IF k > 0 THEN Dec((d.coef + (Pow10(k) \div 2)) \div Pow10(k), 0 - s)
             ELSE Dec(d.coef * Pow10(s - DecimalPlaces(d)) * Pow10(IF d.exp > 0 THEN d.exp ELSE 0),
                      0 - s)

\* the column value of attribute value v: an Enum column holds the member's name
ToColumn(f, v) ==
    IF v = None THEN Null
    ELSE IF IsMember(v) THEN [varchar |-> v.name]
    ELSE IF IsDecimal(v) THEN [numeric |-> <<Quantize(v, f.decimal_places).coef,
                                             Quantize(v, f.decimal_places).exp>>]
    ELSE IF IsList(v) THEN [json |-> v.list]
    ELSE IF IsInt(v) THEN [integer |-> v.int]
    ELSE IF IsDatetime(v) THEN [timestamp |-> v.datetime]
    ELSE [varchar |-> v.str]

\* the attribute value loaded from column value c: an Enum column is looked up by name
FromColumn(f, c) ==
    IF c = Null THEN None
    ELSE IF f.type = "enum" THEN Member(f.enum, c.varchar)
    ELSE IF f.type = "decimal" THEN Dec(c.numeric[1], c.numeric[2])
    ELSE IF f.type = "list" THEN List(c.json)
    ELSE IF f.type = "int" THEN PyInt(c.integer)
    ELSE IF f.type = "datetime" THEN Datetime(c.timestamp)
    ELSE Str(c.varchar)

ToRow(cls, obj) == [n \in FieldNames(cls) |-> ToColumn(FieldNamed(cls, n), obj[n])]

FromRow(cls, row) == [n \in FieldNames(cls) |-> FromColumn(FieldNamed(cls, n), row[n])]

\* the attributes of obj that are None in a column that is not nullable
NotNullViolations(cls, obj) ==
    {f.name : f \in {g \in FieldsOf(cls) : ~g.optional /\ obj[g.name] = None}}

\* obj.food_item_id names no row of food_items, under a declared foreign key
ForeignKeyViolation(fk, obj, foods) ==
    /\ fk = "food_items.id"
    /\ obj.food_item_id # None
    /\ ~\E r \in foods : r.id = ToColumn(PrimaryKey, obj.food_item_id)

\* another row holds obj.code, under a declared unique constraint
UniqueViolation(obj, rows) ==
    /\ Barcode_code_unique
    /\ \E r \in rows : r.code = ToColumn(FieldNamed(Barcode, "code"), obj.code)
                       /\ r.id # ToColumn(PrimaryKey, obj.id)

---------------------------------------------------------------------------
\* Bounds of the model, and the inputs the operations are given

\* the number of rows the storage is asked to hold over a run, all tables together
MaxRows == 4

\* the ids a run can hand out, and one that names no row
Ids == 1..MaxRows

DanglingId == MaxRows + 1

\* the food_item_id values the inserts are given
RefIds == {1, 2, DanglingId}

Codes == {"5901234123457", "0012345678905"}

\* a FoodItemCreate input with every field populated; its name is as long as allowed
FullInput ==
    [name |-> Str(Chars(255)), brand |-> Str("Acme"),
     description |-> Str("Chocolate biscuits"),
     energy_kj |-> Dec(2100, 0), energy_kcal |-> Dec(5021, -1), fat |-> Dec(2450, -2),
     saturated_fat |-> Dec(125, -1), carbohydrates |-> Dec(63, 0), sugars |-> Dec(250, -1),
     fiber |-> Dec(31, -1), protein |-> Dec(6, 0), salt |-> Dec(1125, -3),
     sodium |-> Dec(45, -2),
     nutri_score |-> Str("E"), health_assessment |-> Str("Not recommended"),
     ingredients |-> List(<<"wheat flour", "sugar", "cocoa">>),
     allergens |-> List(<<"gluten">>), categories |-> List(<<"snacks", "biscuits">>)]

OnlyName == [name |-> Str("Water")]

NoInput == [n \in {} |-> None]

FoodInputs ==
    {FullInput, [OnlyName EXCEPT !.name = Str(Chars(256))]}

UpdateInputs == {[nutri_score |-> Str("B")], [name |-> None]}

BarcodeInputs ==
    {[code |-> Str(c), barcode_type |-> Str("EAN13"), food_item_id |-> PyInt(i)] :
        c \in Codes, i \in RefIds}

ScanInputs ==
    {[food_item_id |-> PyInt(i), barcode_scanned |-> Str("5901234123457")] : i \in RefIds}

\* the number of concurrent writers
NumWriters == 3

Writers == 1..NumWriters

---------------------------------------------------------------------------
\* Operations

Ok(op, data, input, value) ==
    [op |-> op, data |-> data, ok |-> TRUE, errors |-> {}, detail |-> {},
     input |-> input, value |-> value]

Fail(op, data, errors, detail) ==
    [op |-> op, data |-> data, ok |-> FALSE, errors |-> errors, detail |-> detail,
     input |-> None, value |-> None]

Init ==
    /\ food_items = {}
    /\ barcodes = {}
    /\ scan_history = {}
    /\ next_id = [food_items |-> 1, barcodes |-> 1, scan_history |-> 1]
    /\ now = 0
    /\ result = Ok("init", NoInput, None, None)
    /\ pc = [w \in Writers |-> "idle"]
    /\ req = [w \in Writers |-> None]
    /\ uncommitted = {}

\* the storage still has room for a row
HasRoom == next_id.food_items + next_id.barcodes + next_id.scan_history < MaxRows + 3

\* the violated constraints of an INSERT or UPDATE of obj
IntegrityErrors(cls, obj, fk, foods, rows) ==
    (IF NotNullViolations(cls, obj) # {} THEN {"NotNullViolation"} ELSE {})
    \cup (IF "food_item_id" \in FieldNames(cls) /\ ForeignKeyViolation(fk, obj, foods)
          THEN {"ReferentialIntegrityError"} ELSE {})
    \cup (IF "code" \in FieldNames(cls) /\ UniqueViolation(obj, rows)
          THEN {"UniquenessViolation"} ELSE {})

\* validate a FoodItemCreate, build the FoodItem from it, insert it and read it back
CreateFoodItem(data) ==
    /\ HasRoom
    /\ LET v == Validate(FoodItemCreate, data, now)
       IN  IF ~v.ok
           THEN /\ result' = Fail("create_food_item", data, {v.error}, v.errors)
                /\ UNCHANGED <<food_items, next_id>>
           ELSE LET item == TableConstruct(FoodItem, v.obj, now).obj
                    row == ToRow(FoodItem, [item EXCEPT !.id = PyInt(next_id.food_items)])
                    errs == IntegrityErrors(FoodItem, item, "", food_items, food_items)
                IN  IF errs # {}
                    THEN /\ result' = Fail("create_food_item", data, errs, {})
                         /\ UNCHANGED <<food_items, next_id>>
                    ELSE /\ food_items' = food_items \cup {row}
                         /\ next_id' = [next_id EXCEPT !.food_items = @ + 1]
                         /\ result' = Ok("create_food_item", data, v.obj, FromRow(FoodItem, row))
    /\ UNCHANGED <<barcodes, scan_history, now, pc, req, uncommitted>>

\* validate a FoodItemUpdate and write the fields it sets to the FoodItem with that id
UpdateFoodItem(id, data) ==
    /\ \E r \in food_items : r.id = [integer |-> id]
    /\ LET v == Validate(FoodItemUpdate, data, now)
           hit == {r \in food_items : r.id = [integer |-> id]}
       IN  IF ~v.ok
           THEN /\ result' = Fail("update_food_item", data, {v.error}, v.errors)
                /\ UNCHANGED food_items
           ELSE LET old == FromRow(FoodItem, CHOOSE r \in hit : TRUE)
                    item == [n \in FieldNames(FoodItem) |->
                               IF n \in v.fields_set THEN v.obj[n]
                               ELSE IF n = "updated_at" THEN Datetime(now)
                               ELSE old[n]]
                    errs == IntegrityErrors(FoodItem, item, "", food_items, food_items)
                IN  IF errs # {}
                    THEN /\ result' = Fail("update_food_item", data, errs, {})
                         /\ UNCHANGED food_items
                    ELSE /\ food_items' = (food_items \ hit) \cup {ToRow(FoodItem, item)}
                         /\ result' = Ok("update_food_item", data, v.obj, item)
    /\ UNCHANGED <<barcodes, scan_history, next_id, now, pc, req, uncommitted>>

\* delete the FoodItem with that id: a row of barcodes or scan_history that still
\* references it is deleted with it under a declared cascade, and otherwise makes
\* the delete fail (its food_item_id cannot become NULL, nor dangle)
DeleteFoodItem(id) ==
    /\ \E r \in food_items : r.id = [integer |-> id]
    /\ LET hit == {r \in food_items : r.id = [integer |-> id]}
           bs == {r \in barcodes : r.food_item_id = [integer |-> id]}
           hs == {r \in scan_history : r.food_item_id = [integer |-> id]}
           blocked ==
               \/ bs # {} /\ ~FoodItem_barcodes_cascade_delete
                          /\ Barcode_food_item_id_foreign_key = "food_items.id"
               \/ hs # {} /\ ~FoodItem_scan_history_cascade_delete
                          /\ ScanHistory_food_item_id_foreign_key = "food_items.id"
       IN  IF blocked
           THEN /\ result' = Fail("delete_food_item", PyInt(id), {"ReferentialIntegrityError"}, {})
                /\ UNCHANGED <<food_items, barcodes, scan_history>>
           ELSE /\ food_items' = food_items \ hit
                /\ barcodes' = IF FoodItem_barcodes_cascade_delete THEN barcodes \ bs ELSE barcodes
                /\ scan_history' =
                       IF FoodItem_scan_history_cascade_delete THEN scan_history \ hs
                       ELSE scan_history
                /\ result' = Ok("delete_food_item", PyInt(id), None, None)
    /\ UNCHANGED <<next_id, now, pc, req, uncommitted>>

\* validate a BarcodeCreate, build the Barcode from it and insert it
CreateBarcode(data) ==
    /\ HasRoom
    /\ LET v == Validate(BarcodeCreate, data, now)
       IN  IF ~v.ok
           THEN /\ result' = Fail("create_barcode", data, {v.error}, v.errors)
                /\ UNCHANGED <<barcodes, next_id>>
           ELSE LET item == TableConstruct(Barcode, v.obj, now).obj
                    row == ToRow(Barcode, [item EXCEPT !.id = PyInt(next_id.barcodes)])
                    errs == IntegrityErrors(Barcode, item, Barcode_food_item_id_foreign_key,
                                            food_items, barcodes)
                IN  IF errs # {}
                    THEN /\ result' = Fail("create_barcode", data, errs, {})
                         /\ UNCHANGED <<barcodes, next_id>>
                    ELSE /\ barcodes' = barcodes \cup {row}
                         /\ next_id' = [next_id EXCEPT !.barcodes = @ + 1]
                         /\ result' = Ok("create_barcode", data, v.obj, FromRow(Barcode, row))
    /\ UNCHANGED <<food_items, scan_history, now, pc, req, uncommitted>>

\* bind the Barcode with that id to another FoodItem and code
UpdateBarcode(id, data) ==
    /\ \E r \in barcodes : r.id = [integer |-> id]
    /\ LET hit == {r \in barcodes : r.id = [integer |-> id]}
       IN  LET old == FromRow(Barcode, CHOOSE r \in hit : TRUE)
                    item == [n \in FieldNames(Barcode) |->
                               IF n \in DOMAIN data THEN data[n] ELSE old[n]]
                    errs == IntegrityErrors(Barcode, item, Barcode_food_item_id_foreign_key,
                                            food_items, barcodes)
                IN  IF errs # {}
                    THEN /\ result' = Fail("update_barcode", data, errs, {})
                         /\ UNCHANGED barcodes
                    ELSE /\ barcodes' = (barcodes \ hit) \cup {ToRow(Barcode, item)}
                         /\ result' = Ok("update_barcode", data, None, item)
    /\ UNCHANGED <<food_items, scan_history, next_id, now, pc, req, uncommitted>>

DeleteBarcode(id) ==
    /\ \E r \in barcodes : r.id = [integer |-> id]
    /\ LET hit == {r \in barcodes : r.id = [integer |-> id]}
       IN  /\ barcodes' = barcodes \ hit
           /\ result' = Ok("delete_barcode", PyInt(id), None, None)
    /\ UNCHANGED <<food_items, scan_history, next_id, now, pc, req, uncommitted>>

\* build a ScanHistory from data and insert it
AppendScanHistory(data) ==
    /\ HasRoom
    /\ LET item == TableConstruct(ScanHistory, data, now).obj
           row == ToRow(ScanHistory, [item EXCEPT !.id = PyInt(next_id.scan_history)])
           errs == IntegrityErrors(ScanHistory, item, ScanHistory_food_item_id_foreign_key,
                                   food_items, scan_history)
       IN  IF errs # {}
           THEN /\ result' = Fail("append_scan_history", data, errs, {})
                /\ UNCHANGED <<scan_history, next_id>>
           ELSE /\ scan_history' = scan_history \cup {row}
                /\ next_id' = [next_id EXCEPT !.scan_history = @ + 1]
                /\ result' = Ok("append_scan_history", data, None, FromRow(ScanHistory, row))
    /\ UNCHANGED <<food_items, barcodes, now, pc, req, uncommitted>>

\* look the scanned string up among the stored Barcodes and answer with a ScanResult;
\* a scan that resolves to a FoodItem is logged in scan_history
Answer(code, data) ==
    LET v == Validate(ScanResult, data, now)
    IN  IF v.ok THEN Ok("scan", Str(code), None, v.obj)
        ELSE Fail("scan", Str(code), {v.error}, v.errors)

Scan(code) ==
    /\ LET hits == {r \in barcodes : r.code = [varchar |-> code]}
       IN  IF hits = {}
           THEN /\ result' = Answer(code, [barcode |-> Str(code), found |-> Bool(FALSE)])
                /\ UNCHANGED <<scan_history, next_id>>
           ELSE LET b == CHOOSE r \in hits : TRUE
                    food == FromRow(FoodItem, CHOOSE r \in food_items : r.id = b.food_item_id)
                    item == TableConstruct(ScanHistory,
                                [food_item_id |-> food.id, barcode_scanned |-> Str(code)], now).obj
                    row == ToRow(ScanHistory, [item EXCEPT !.id = PyInt(next_id.scan_history)])
                IN  /\ HasRoom
                    /\ scan_history' = scan_history \cup {row}
                    /\ next_id' = [next_id EXCEPT !.scan_history = @ + 1]
                    /\ result' = Answer(code,
                                        [barcode |-> Str(code), found |-> Bool(TRUE),
                                         food_item |-> Dict(food),
                                         nutri_score |-> food.nutri_score,
                                         health_assessment |-> food.health_assessment])
    /\ UNCHANGED <<food_items, barcodes, now, pc, req, uncommitted>>

Next ==
    \/ \E data \in FoodInputs : CreateFoodItem(data)
    \/ \E id \in Ids, data \in UpdateInputs : UpdateFoodItem(id, data)
    \/ \E id \in Ids : DeleteFoodItem(id)
    \/ \E data \in BarcodeInputs : CreateBarcode(data)
    \/ \E id \in Ids, i \in RefIds :
          UpdateBarcode(id, [food_item_id |-> PyInt(i)])
    \/ \E id \in Ids : DeleteBarcode(id)
    \/ \E data \in ScanInputs : AppendScanHistory(data)
    \/ \E c \in Codes : Scan(c)

Spec == Init /\ [][Next]_vars

---------------------------------------------------------------------------
\* Construction of the classes on their own: cls(**data)

MaxClock == 1

\* data with field n set to v
Put(data, n, v) == [m \in DOMAIN data \cup {n} |-> IF m = n THEN v ELSE data[m]]

\* data without field n
Without(data, n) == [m \in DOMAIN data \ {n} |-> data[m]]

FieldSamples ==
    {<<"name", v>> : v \in {None, Str(""), Str(Chars(255)), Str(Chars(256)), PyInt(7)}}
    \cup {<<"brand", v>> : v \in {None, Str(Chars(255)), Str(Chars(256))}}
    \cup {<<"description", v>> : v \in {None, Str(Chars(1000)), Str(Chars(1001))}}
    \cup {<<"nutri_score", v>> :
            v \in {None, Str("A"), Str("B"), Str("C"), Str("D"), Str("E"), Str("F"), Str("a"),
                   Member("NutriScore", "C"), Member("HealthAssessment", "GOOD")}}
    \cup {<<"health_assessment", v>> :
            v \in {None, Str("Good for health"), Str("Moderate"), Str("Not recommended"),
                   Str("GOOD"), Str("Healthy"), Member("HealthAssessment", "MODERATE")}}
    \cup {<<"sugars", v>> : v \in {None, Dec(250, -1), PyInt(25), Str("a lot")}}
    \cup {<<"allergens", v>> : v \in {None, List(<<>>), Str("gluten")}}

FoodSamples ==
    {FullInput, OnlyName, NoInput}
    \cup {Put(b, s[1], s[2]) : b \in {FullInput, OnlyName, NoInput}, s \in FieldSamples}
    \cup {Without(FullInput, n) : n \in DOMAIN FullInput}

BarcodeSamples ==
    LET full == [code |-> Str("5901234123457"), barcode_type |-> Str("EAN13"),
                 food_item_id |-> PyInt(1)]
    IN  {full}
        \cup {Put(full, "code", v) : v \in {None, Str(Chars(50)), Str(Chars(51))}}
        \cup {Put(full, "barcode_type", v) : v \in {None, Str(Chars(20)), Str(Chars(21))}}
        \cup {Put(full, "food_item_id", v) : v \in {None, Str("one")}}
        \cup {Without(full, n) : n \in DOMAIN full}

NewResult(name, cls, data) ==
    LET c == Construct(cls, data, now)
    IN  IF c.ok THEN Ok(name, data, None, c.obj) ELSE Fail(name, data, {c.error}, c.errors)

Tick ==
    /\ now < MaxClock
    /\ now' = now + 1
    /\ UNCHANGED <<food_items, barcodes, scan_history, next_id, result, pc, req, uncommitted>>

NewFoodItemCreate(data) ==
    /\ result' = NewResult("FoodItemCreate", FoodItemCreate, data)
    /\ UNCHANGED <<food_items, barcodes, scan_history, next_id, now, pc, req, uncommitted>>

NewFoodItemUpdate(data) ==
    /\ result' = NewResult("FoodItemUpdate", FoodItemUpdate, data)
    /\ UNCHANGED <<food_items, barcodes, scan_history, next_id, now, pc, req, uncommitted>>

NewFoodItem(data) ==
    /\ result' = NewResult("FoodItem", FoodItem, data)
    /\ UNCHANGED <<food_items, barcodes, scan_history, next_id, now, pc, req, uncommitted>>

NewBarcodeCreate(data) ==
    /\ result' = NewResult("BarcodeCreate", BarcodeCreate, data)
    /\ UNCHANGED <<food_items, barcodes, scan_history, next_id, now, pc, req, uncommitted>>

NewBarcode(data) ==
    /\ result' = NewResult("Barcode", Barcode, data)
    /\ UNCHANGED <<food_items, barcodes, scan_history, next_id, now, pc, req, uncommitted>>

NextSchema ==
    \/ Tick
    \/ \E data \in FoodSamples : NewFoodItemCreate(data)
    \/ \E data \in FoodSamples : NewFoodItemUpdate(data)
    \/ \E data \in FoodSamples : NewFoodItem(data)
    \/ \E data \in BarcodeSamples : NewBarcodeCreate(data)
    \/ \E data \in BarcodeSamples : NewBarcode(data)

SpecSchema == Init /\ [][NextSchema]_vars

---------------------------------------------------------------------------
\* Creating FoodItems from inputs with every field populated, and deleting them

FullSamples ==
    {FullInput,
     [FullInput EXCEPT !.nutri_score = Str("A"), !.health_assessment = Str("Good for health"),
                       !.sugars = Dec(5, -4), !.fat = Dec(0, 0)],
     [FullInput EXCEPT !.nutri_score = Member("NutriScore", "C"),
                       !.health_assessment = Member("HealthAssessment", "MODERATE"),
                       !.name = Str("Oat drink"), !.energy_kj = Dec(19500, -2)],
     [FullInput EXCEPT !.ingredients = List(<<>>), !.allergens = List(<<"milk", "soy">>),
                       !.description = Str(Chars(1000)), !.salt = Dec(100, -2)]}

NextRoundTrip ==
    \/ \E data \in FullSamples : CreateFoodItem(data)
    \/ \E id \in Ids : DeleteFoodItem(id)

SpecRoundTrip == Init /\ [][NextRoundTrip]_vars

---------------------------------------------------------------------------
\* Concurrent writers.  Each writer runs one transaction that inserts one row:
\* it begins, writes the row (visible to itself only), and commits.  The unique
\* constraint is enforced at the write: against the committed rows, and against a row
\* another transaction has written and not yet committed, for whose end the writer
\* waits.

\* one FoodItem is stored, which the writers' rows reference
InitConc ==
    /\ food_items = {ToRow(FoodItem,
                        [TableConstruct(FoodItem, Validate(FoodItemCreate, OnlyName, 0).obj, 0).obj
                            EXCEPT !.id = PyInt(1)])}
    /\ barcodes = {}
    /\ scan_history = {}
    /\ next_id = [food_items |-> 2, barcodes |-> 1, scan_history |-> 1]
    /\ now = 0
    /\ result = Ok("init", NoInput, None, None)
    /\ pc = [w \in Writers |-> "idle"]
    /\ req = [w \in Writers |-> None]
    /\ uncommitted = {}

Requests ==
    {[table |-> "barcodes",
      data |-> [code |-> Str(c), barcode_type |-> Str("EAN13"), food_item_id |-> PyInt(1)],
      errors |-> {}] : c \in Codes}
    \cup {[table |-> "scan_history",
           data |-> [food_item_id |-> PyInt(1), barcode_scanned |-> Str(c)],
           errors |-> {}] : c \in Codes}

Begin(w, r) ==
    /\ pc[w] = "idle"
    /\ pc' = [pc EXCEPT ![w] = "begun"]
    /\ req' = [req EXCEPT ![w] = r]
    /\ UNCHANGED <<food_items, barcodes, scan_history, next_id, now, result, uncommitted>>

\* the rows of that table other transactions have written and not committed
Pending(w, table) == {u.row : u \in {x \in uncommitted : x.writer # w /\ x.table = table}}

WriteBarcode(w) ==
    /\ pc[w] = "begun"
    /\ req[w].table = "barcodes"
    /\ LET item == TableConstruct(Barcode, Validate(BarcodeCreate, req[w].data, now).obj, now).obj
           obj == [item EXCEPT !.id = PyInt(next_id.barcodes)]
           errs == IntegrityErrors(Barcode, obj, Barcode_food_item_id_foreign_key,
                                   food_items, barcodes)
       IN  IF errs # {}
           THEN /\ pc' = [pc EXCEPT ![w] = "failed"]
                /\ req' = [req EXCEPT ![w].errors = errs]
                /\ UNCHANGED <<uncommitted, next_id>>
           ELSE /\ ~UniqueViolation(obj, Pending(w, "barcodes"))
                /\ uncommitted' = uncommitted \cup
                                    {[writer |-> w, table |-> "barcodes", row |-> ToRow(Barcode, obj)]}
                /\ next_id' = [next_id EXCEPT !.barcodes = @ + 1]
                /\ pc' = [pc EXCEPT ![w] = "written"]
                /\ UNCHANGED req
    /\ UNCHANGED <<food_items, barcodes, scan_history, now, result>>

WriteScanHistory(w) ==
    /\ pc[w] = "begun"
    /\ req[w].table = "scan_history"
    /\ LET item == TableConstruct(ScanHistory, req[w].data, now).obj
           obj == [item EXCEPT !.id = PyInt(next_id.scan_history)]
           errs == IntegrityErrors(ScanHistory, obj, ScanHistory_food_item_id_foreign_key,
                                   food_items, scan_history)
       IN  IF errs # {}
           THEN /\ pc' = [pc EXCEPT ![w] = "failed"]
                /\ req' = [req EXCEPT ![w].errors = errs]
                /\ UNCHANGED <<uncommitted, next_id>>
           ELSE /\ uncommitted' = uncommitted \cup
                                    {[writer |-> w, table |-> "scan_history",
                                      row |-> ToRow(ScanHistory, obj)]}
                /\ next_id' = [next_id EXCEPT !.scan_history = @ + 1]
                /\ pc' = [pc EXCEPT ![w] = "written"]
                /\ UNCHANGED req
    /\ UNCHANGED <<food_items, barcodes, scan_history, now, result>>

Commit(w) ==
    /\ pc[w] = "written"
    /\ LET mine == {u \in uncommitted : u.writer = w}
       IN  /\ barcodes' = barcodes \cup {u.row : u \in {x \in mine : x.table = "barcodes"}}
           /\ scan_history' =
                  scan_history \cup {u.row : u \in {x \in mine : x.table = "scan_history"}}
           /\ uncommitted' = uncommitted \ mine
    /\ pc' = [pc EXCEPT ![w] = "committed"]
    /\ UNCHANGED <<food_items, next_id, now, result, req>>

NextConc ==
    \/ \E w \in Writers, r \in Requests : Begin(w, r)
    \/ \E w \in Writers : WriteBarcode(w)
    \/ \E w \in Writers : WriteScanHistory(w)
    \/ \E w \in Writers : Commit(w)

SpecConc == InitConc /\ [][NextConc]_vars

---------------------------------------------------------------------------
\* Properties

\* the Barcode inputs that pass BarcodeCreate
ValidBarcodeInput(data) ==
    /\ DOMAIN data = {"code", "barcode_type", "food_item_id"}
    /\ IsStr(data.code) /\ Len(data.code.str) <= 50
    /\ IsStr(data.barcode_type) /\ Len(data.barcode_type.str) <= 20
    /\ IsInt(data.food_item_id)

CodeStored(data) == \E r \in barcodes : r.code = [varchar |-> data.code.str]

FoodStored(data) == \E f \in food_items : f.id = [integer |-> data.food_item_id.int]

NoTwoBarcodesShareACode ==
    \A r1, r2 \in barcodes : r1.code = r2.code => r1 = r2

DuplicateCodeIsRejected ==
    \A data \in BarcodeInputs :
        CreateBarcode(data) /\ ValidBarcodeInput(data) /\ CodeStored(data)
        => /\ ~result'.ok
           /\ "UniquenessViolation" \in result'.errors
           /\ barcodes' = barcodes

\* C1: no two stored Barcodes ever share a code, and an insert of a Barcode whose
\* code is already stored fails with UniquenessViolation and leaves barcodes unchanged
C1_CodeIsUnique == []NoTwoBarcodesShareACode /\ [][DuplicateCodeIsRejected]_vars

C1_Witness ==
    /\ result.op = "create_barcode"
    /\ ~result.ok
    /\ "UniquenessViolation" \in result.errors
    /\ \E r \in barcodes : r.code = [varchar |-> result.data.code.str]

EveryReferenceResolves ==
    \A r \in barcodes \cup scan_history : \E f \in food_items : f.id = r.food_item_id

DanglingInsertIsRejected ==
    /\ \A data \in BarcodeInputs :
          CreateBarcode(data) /\ ValidBarcodeInput(data) /\ ~FoodStored(data)
          => /\ ~result'.ok
             /\ "ReferentialIntegrityError" \in result'.errors
             /\ UNCHANGED <<food_items, barcodes, scan_history>>
    /\ \A data \in ScanInputs :
          AppendScanHistory(data) /\ ~FoodStored(data)
          => /\ ~result'.ok
             /\ "ReferentialIntegrityError" \in result'.errors
             /\ UNCHANGED <<food_items, barcodes, scan_history>>

\* C2: after any sequence of creates, updates and deletes every stored Barcode and
\* ScanHistory row references an existing FoodItem, and an insert of a row whose
\* food_item_id matches no FoodItem is rejected with ReferentialIntegrityError and
\* writes nothing
C2_ReferencesResolve == []EveryReferenceResolves /\ [][DanglingInsertIsRejected]_vars

\* the delete of a FoodItem that still has rows was asked for, and refused
C2_Witness ==
    /\ result.op = "delete_food_item"
    /\ ~result.ok
    /\ \E r \in barcodes : r.food_item_id = [integer |-> result.data.int]
    /\ \E r \in scan_history : r.food_item_id = [integer |-> result.data.int]

C7_RoundTrip ==
    result.op = "create_food_item" /\ DOMAIN result.data = FieldNames(FoodItemCreate)
        /\ (\A n \in DOMAIN result.data : result.data[n] # None)
        /\ Len(result.data.name.str) <= 255
    => /\ result.ok
       /\ \E r \in food_items :
            /\ r.id = [integer |-> result.value.id.int]
            /\ \A n \in FieldNames(FoodItemCreate) :
                 /\ PyEq(FromRow(FoodItem, r)[n], result.data[n])
                 /\ IsDecimal(result.data[n]) => FromRow(FoodItem, r)[n] = result.data[n]

C7_Witness ==
    /\ result.op = "create_food_item"
    /\ result.ok
    /\ result.data \in FullSamples
    /\ result.data.sugars = Dec(5, -4)
    /\ \E r \in food_items : r.sugars = [numeric |-> <<5, -4>>] /\ r.nutri_score = [varchar |-> "A"]
    /\ Cardinality(food_items) > 1

\* C8: scanning a string that is the code of no stored Barcode answers with a
\* ScanResult of that string, found false and no food_item
C8_ScanOfUnknownCode ==
    result.op = "scan" /\ ~(\E r \in barcodes : r.code = [varchar |-> result.data.str])
    => /\ result.ok
       /\ result.value.barcode = result.data
       /\ result.value.found = Bool(FALSE)
       /\ result.value.food_item = None

C8_Witness ==
    /\ result.op = "scan"
    /\ result.data = Str("5901234123457")
    /\ barcodes # {}
    /\ ~\E r \in barcodes : r.code = [varchar |-> "5901234123457"]
    /\ result.value.found = Bool(FALSE)

---------------------------------------------------------------------------
\* Properties of the classes on their own

Scores == {"A", "B", "C", "D", "E"}

Assessments == {"Good for health", "Moderate", "Not recommended"}

\* v is absent or one of A..E
InScores(v) ==
    \/ v = None
    \/ IsMember(v) /\ v.enum = "NutriScore" /\ ValueOf(v) \in Scores
    \/ IsStr(v) /\ v.str \in Scores

\* v is absent or one of the three assessments
InAssessments(v) ==
    \/ v = None
    \/ IsMember(v) /\ v.enum = "HealthAssessment" /\ ValueOf(v) \in Assessments
    \/ IsStr(v) /\ v.str \in Assessments

ErrorAt(n) == \E e \in result.detail : e.loc = n

Gave(n) == n \in DOMAIN result.data

\* C4 as claimed: every FoodItem that can be constructed has nutri_score absent or in
\* A..E and health_assessment absent or one of the three assessments
C4_EveryFoodItemIsInRange ==
    result.op = "FoodItem" /\ result.ok
    => InScores(result.value.nutri_score) /\ InAssessments(result.value.health_assessment)

\* C4: every input FoodItemCreate or FoodItemUpdate accepts has nutri_score absent or
\* in A..E and health_assessment absent or one of the three assessments, and they
\* reject a value outside these sets with a validation error on that field; FoodItem
\* is constructed from the values as given, whatever they are
C4_SchemasAreInRange ==
    /\ result.op \in {"FoodItemCreate", "FoodItemUpdate"} /\ result.ok
       => InScores(result.value.nutri_score) /\ InAssessments(result.value.health_assessment)
    /\ result.op \in {"FoodItemCreate", "FoodItemUpdate"} /\ Gave("nutri_score")
          /\ ~InScores(result.data.nutri_score)
       => ~result.ok /\ result.errors = {"ValidationError"} /\ ErrorAt("nutri_score")
    /\ result.op \in {"FoodItemCreate", "FoodItemUpdate"} /\ Gave("health_assessment")
          /\ ~InAssessments(result.data.health_assessment)
       => ~result.ok /\ result.errors = {"ValidationError"} /\ ErrorAt("health_assessment")
    /\ result.op = "FoodItem"
       => result.ok /\ \A n \in DOMAIN result.data : result.value[n] = result.data[n]

C4_Witness ==
    /\ result.op = "FoodItemCreate"
    /\ DOMAIN result.data = DOMAIN FullInput
    /\ result.data.nutri_score = Str("F")
    /\ ~result.ok

NameOfLength(k) == Gave("name") /\ IsStr(result.data.name) /\ Len(result.data.name.str) = k

\* C6 as claimed: FoodItemCreate and FoodItem both accept a name of 255 characters
\* and reject one of 256
C6_BothRejectALongName ==
    result.op \in {"FoodItemCreate", "FoodItem"}
    => /\ NameOfLength(255) => ~ErrorAt("name")
       /\ NameOfLength(256) => ~result.ok /\ ErrorAt("name")

\* C6: FoodItemCreate accepts a name of 255 characters and rejects one of 256 with a
\* validation error on name; FoodItem is constructed with either name, unvalidated
C6_NameBoundary ==
    /\ result.op = "FoodItemCreate"
       => /\ NameOfLength(255) => ~ErrorAt("name")
          /\ NameOfLength(255) /\ DOMAIN result.data = {"name"} => result.ok
          /\ NameOfLength(256)
             => /\ ~result.ok
                /\ result.errors = {"ValidationError"}
                /\ [loc |-> "name", type |-> "string_too_long"] \in result.detail
    /\ result.op = "FoodItem" /\ (NameOfLength(255) \/ NameOfLength(256))
       => result.ok /\ result.value.name = result.data.name

C6_Witness ==
    /\ result.op = "FoodItemCreate"
    /\ DOMAIN result.data = DOMAIN FullInput
    /\ NameOfLength(256)
    /\ ~result.ok

\* C9: FoodItemCreate rejects an input without name with a validation error on name,
\* misses no other field, and accepts a valid name alone with every other field
\* absent; FoodItemUpdate misses no field, and accepts an input with no fields
C9_OnlyNameIsRequired ==
    /\ result.op = "FoodItemCreate" /\ ~Gave("name")
       => /\ ~result.ok
          /\ result.errors = {"ValidationError"}
          /\ [loc |-> "name", type |-> "missing"] \in result.detail
    /\ result.op = "FoodItemCreate"
       => \A e \in result.detail : e.type = "missing" => e.loc = "name"
    /\ result.op = "FoodItemCreate" /\ DOMAIN result.data = {"name"}
          /\ IsStr(result.data.name) /\ Len(result.data.name.str) <= 255
       => /\ result.ok
          /\ result.value.name = result.data.name
          /\ \A n \in DOMAIN result.value \ {"name"} : result.value[n] = None
    /\ result.op = "FoodItemUpdate"
       => \A e \in result.detail : e.type # "missing"
    /\ result.op = "FoodItemUpdate" /\ DOMAIN result.data = {}
       => result.ok /\ \A n \in DOMAIN result.value : result.value[n] = None

C9_Witness ==
    /\ result.op = "FoodItemCreate"
    /\ result.data = Without(FullInput, "name")
    /\ ~result.ok

\* value v meets the length and enumeration declared for field n of table class cls
Fits(cls, n, v) ==
    /\ n \in FieldNames(cls)
    /\ IsStr(v) /\ FieldNamed(cls, n).type = "str"
       => \A m \in FieldNamed(cls, n).max_length : Len(v.str) <= m
    /\ IsMember(v) => FieldNamed(cls, n).type = "enum" /\ FieldNamed(cls, n).enum = v.enum

---------------------------------------------------------------------------
\* Properties of the concurrent writers

InsertsOf(table, c) ==
    {w \in Writers : pc[w] # "idle" /\ req[w].table = table
                     /\ req[w].data[IF table = "barcodes" THEN "code" ELSE "barcode_scanned"]
                        = Str(c)}

Succeeded(w) == pc[w] \in {"written", "committed"}

\* C5: of the writers that concurrently insert Barcodes with one code at most one
\* succeeds, and once all have ended one has committed and every other one has failed
\* with UniquenessViolation; every committed ScanHistory append is a row of its own
\* in scan_history, and no append ever waits for another writer
C5_ConcurrentInserts ==
    /\ \A c \in Codes :
          /\ Cardinality({w \in InsertsOf("barcodes", c) : Succeeded(w)}) <= 1
          /\ (\A w \in InsertsOf("barcodes", c) : pc[w] \in {"committed", "failed"})
                /\ InsertsOf("barcodes", c) # {}
             => /\ Cardinality({w \in InsertsOf("barcodes", c) : pc[w] = "committed"}) = 1
                /\ \A w \in InsertsOf("barcodes", c) :
                      pc[w] = "failed" => req[w].errors = {"UniquenessViolation"}
                /\ Cardinality({r \in barcodes : r.code = [varchar |-> c]}) = 1
    /\ \A w \in Writers : pc[w] # "idle" /\ req[w].table = "scan_history"
          => /\ pc[w] # "failed"
             /\ pc[w] = "begun" => ENABLED WriteScanHistory(w)
             /\ pc[w] = "written" => ENABLED Commit(w)
    /\ Cardinality(scan_history)
          = Cardinality({w \in Writers : pc[w] = "committed" /\ req[w].table = "scan_history"})
    /\ \A r1, r2 \in scan_history : r1.id = r2.id => r1 = r2

\* writers that inserted the same code have all ended, and a ScanHistory append has committed
C5_Witness ==
    /\ \E c \in Codes : Cardinality(InsertsOf("barcodes", c)) >= 2
                        /\ \A w \in InsertsOf("barcodes", c) : pc[w] \in {"committed", "failed"}
    /\ \E c \in Codes : Cardinality({w \in InsertsOf("scan_history", c) : pc[w] = "committed"}) >= 1

====
